---- MODULE Spec2Model ----
(***************************************************************************)
(* A model of the lsbasi calculator: the scanner (Interpreter::tokenize),  *)
(* the left-to-right evaluator (Interpreter::evaluate) of src/src/lib.rs   *)
(* and the read-evaluate-print loop of src/src/main.rs.                    *)
(*                                                                         *)
(* A text is a sequence of one-character strings.  A token is a record     *)
(* [type, value]; value is the run of characters that produced it.         *)
(* tokenize always stores Some(val), so the None case of Token::value is   *)
(* not a state the program reaches and value is modelled as the run.       *)
(*                                                                         *)
(* Operands are at most MaxLen digits long and at most MaxOps + 1 of them  *)
(* are combined, so no value in a run of the model leaves the i64 range:   *)
(* the overflow of str::parse and of the arithmetic is outside the model.  *)
(***************************************************************************)
EXTENDS Integers, Sequences, FiniteSets, TLC

VARIABLES pc, text, pos, val, tokens, first, idx, result

vars == <<pc, text, pos, val, tokens, first, idx, result>>

-----------------------------------------------------------------------------
(* Bounds of the inputs *)

\* the longest line drawn from all the strings over InputChars
MaxLen == 4

\* the most operators of a line drawn from the well-formed expressions
MaxOps == 2

-----------------------------------------------------------------------------
(* Characters *)

DigitChars == <<"0", "1", "2", "3", "4", "5", "6", "7", "8", "9">>

Digits == {DigitChars[i] : i \in 1..Len(DigitChars)}

OpChars == {"+", "-", "*", "/"}

Space == " "

Terminator == "\n"

AcceptedChars == Digits \cup OpChars \cup {Space, Terminator}

\* the characters the arbitrary lines are made of; "a" stands for every
\* character outside the accepted alphabet
InputChars == {"0", "1", Space, "+", "-", "*", "/", Terminator, "a"}

\* the operands of the well-formed expressions
Operands == {<<"0">>, <<"1">>, <<"2">>, <<"4">>}

-----------------------------------------------------------------------------
(* Results *)

OkNone == [kind |-> "None", value |-> 0, msg |-> ""]

OkSome(v) == [kind |-> "Some", value |-> v, msg |-> ""]

Err(m) == [kind |-> "Err", value |-> 0, msg |-> m]

\* the outcome of a call that unwinds instead of returning
Panicked(m) == [kind |-> "Panic", value |-> 0, msg |-> m]

-----------------------------------------------------------------------------
(* Character classes and tokens *)

\* detect_char_type dropping an unknown character like a space
detect_char_type_Lenient(item) ==
    CASE item \in Digits -> "Integer"
      [] item = " "      -> "Whitespace"
      [] item = "-"      -> "Minus"
      [] item = "+"      -> "Plus"
      [] item = "*"      -> "Mul"
      [] item = "/"      -> "Div"
      [] item = "\n"     -> "Eof"
      [] OTHER           -> "Whitespace"

\* lib.rs:293-304; "panic" stands for the panic!("Parse error!") of the last arm
detect_char_type(item) ==
    CASE item \in Digits -> "Integer"
      [] item = " "      -> "Whitespace"
      [] item = "-"      -> "Minus"
      [] item = "+"      -> "Plus"
      [] item = "*"      -> "Mul"
      [] item = "/"      -> "Div"
      [] item = "\n"     -> "Eof"
      [] OTHER           -> "panic"

is_ops(token) == token.type \in {"Minus", "Plus", "Mul", "Div"}

\* is_eof comparing with the wrong variant
is_eof_WrongVariant(token) == token.type = "Whitespace"

is_eof(token) == token.type = "Eof"

\* a token that keeps the current character instead of the accumulated run
MakeToken_LastChar(curr_type, v) == [type |-> curr_type, value |-> <<v[Len(v)]>>]

\* lib.rs:109-112
MakeToken(curr_type, v) == [type |-> curr_type, value |-> v]

-----------------------------------------------------------------------------
(* Interpreter::tokenize, one character (one chars.next()) at a time.      *)
(* A scanner state is [pos, val, tokens, panic]: pos characters are        *)
(* consumed, val is the run being accumulated, tokens the stream so far.   *)

ScanInit == [pos |-> 0, val |-> <<>>, tokens |-> <<>>, panic |-> FALSE]

\* the scanner without the check that drops spaces
SkipsChar_Never(curr_type) == FALSE

\* lib.rs:98  a character of class Whitespace is consumed and dropped
SkipsChar(curr_type) == curr_type = "Whitespace"

\* lib.rs:103-107  the run ends unless the peeked character has the class of
\* the current one
EndsRun(curr_type, txt, p) ==
    \/ p + 1 > Len(txt)
    \/ detect_char_type(txt[p + 1]) # curr_type

\* one iteration of the inner loop (lib.rs:96-117); the outer loop's fresh
\* val (lib.rs:95) is taken when the inner loop breaks after emitting
scan_step(txt, s) ==
    LET curr == txt[s.pos + 1]
        curr_type == detect_char_type(curr)
        p == s.pos + 1
    IN  IF curr_type = "panic"
        THEN [s EXCEPT !.panic = TRUE]
        ELSE IF SkipsChar(curr_type)
        THEN [s EXCEPT !.pos = p]
        ELSE IF p + 1 <= Len(txt) /\ detect_char_type(txt[p + 1]) = "panic"
        THEN [s EXCEPT !.pos = p, !.val = Append(s.val, curr), !.panic = TRUE]
        ELSE IF EndsRun(curr_type, txt, p)
        THEN [s EXCEPT !.pos = p, !.val = <<>>,
                       !.tokens = Append(s.tokens,
                                         MakeToken(curr_type, Append(s.val, curr)))]
        ELSE [s EXCEPT !.pos = p, !.val = Append(s.val, curr)]

RECURSIVE tokenize_from(_, _)
tokenize_from(txt, s) ==
    IF s.panic \/ s.pos >= Len(txt)
    THEN s
    ELSE tokenize_from(txt, scan_step(txt, s))

\* the scanner state tokenize ends in: .tokens is the returned stream, .panic
\* says that detect_char_type unwound instead
tokenize(txt) == tokenize_from(txt, ScanInit)

-----------------------------------------------------------------------------
(* parse_number *)

DigitVal(c) == (CHOOSE i \in 1..Len(DigitChars) : DigitChars[i] = c) - 1

RECURSIVE DecimalValue(_)
DecimalValue(v) ==
    IF v = <<>> THEN 0
    ELSE 10 * DecimalValue(SubSeq(v, 1, Len(v) - 1)) + DigitVal(v[Len(v)])

\* str::parse::<i64> (lib.rs:229): an optional sign and one or more digits
StrParse(v) ==
    LET signed == Len(v) > 0 /\ v[1] \in {"+", "-"}
        body == IF signed THEN SubSeq(v, 2, Len(v)) ELSE v
    IN  IF body = <<>> \/ \E i \in 1..Len(body) : body[i] \notin Digits
        THEN Err("invalid digit found in string")
        ELSE IF signed /\ v[1] = "-"
        THEN OkSome(0 - DecimalValue(body))
        ELSE OkSome(DecimalValue(body))

parse_number(token) ==
    IF is_ops(token) \/ token.type = "Eof" \/ token.type = "Whitespace"
    THEN Err("Evaluated text must be integer!")
    ELSE StrParse(token.value)

-----------------------------------------------------------------------------
(* Interpreter::evaluate *)

\* division rounding toward negative infinity
TruncDiv_Floor(a, d) == a \div d

\* i64 division (lib.rs:78): the quotient rounded toward zero
TruncDiv(a, d) ==
    IF (a >= 0) = (d >= 0)
    THEN (IF a >= 0 THEN a ELSE 0 - a) \div (IF d >= 0 THEN d ELSE 0 - d)
    ELSE 0 - ((IF a >= 0 THEN a ELSE 0 - a) \div (IF d >= 0 THEN d ELSE 0 - d))

\* the i64 division instruction: a zero divisor makes it panic
MachineDiv(a, d) ==
    IF d = 0 THEN Panicked("attempt to divide by zero") ELSE OkSome(TruncDiv(a, d))

\* ApplyOp without the check of the divisor
ApplyOp_NoZeroCheck(op_type, a, second) ==
    CASE op_type = "Plus"  -> OkSome(a + second)
      [] op_type = "Minus" -> OkSome(a - second)
      [] op_type = "Mul"   -> OkSome(a * second)
      [] op_type = "Div"   -> MachineDiv(a, second)
      [] OTHER             -> Panicked("unreachable")

\* ApplyOp with the operands of the subtraction exchanged
ApplyOp_SwappedMinus(op_type, a, second) ==
    CASE op_type = "Plus"  -> OkSome(a + second)
      [] op_type = "Minus" -> OkSome(second - a)
      [] op_type = "Mul"   -> OkSome(a * second)
      [] op_type = "Div"   -> IF second = 0
                              THEN Err("Division by zero!")
                              ELSE MachineDiv(a, second)
      [] OTHER             -> Panicked("unreachable")

\* the match on the operator (lib.rs:69-81)
ApplyOp(op_type, a, second) ==
    CASE op_type = "Plus"  -> OkSome(a + second)
      [] op_type = "Minus" -> OkSome(a - second)
      [] op_type = "Mul"   -> OkSome(a * second)
      [] op_type = "Div"   -> IF second = 0
                              THEN Err("Division by zero!")
                              ELSE MachineDiv(a, second)
      [] OTHER             -> Panicked("unreachable")

\* An evaluator state is [done, result, first, idx]: first is the
\* accumulator, idx the index of the next token the iterator yields.
Finished(e, r) == [e EXCEPT !.done = TRUE, !.result = r]

\* lib.rs:43-53 and 85-87: the checks on the first token
evaluate_first(stream) ==
    LET e == [done |-> FALSE, result |-> OkNone, first |-> 0, idx |-> 1]
    IN  IF stream = <<>> THEN Finished(e, OkNone)
        ELSE IF is_eof(stream[1]) THEN Finished(e, OkNone)
        ELSE IF is_ops(stream[1])
        THEN Finished(e, Err("Evaluated text must starts with integer!"))
        ELSE LET n == parse_number(stream[1])
             IN  IF n.kind = "Err" THEN Finished(e, n)
                 ELSE [e EXCEPT !.first = n.value, !.idx = 2]

\* an Eof token skipped (continue) instead of ending the loop (break)
StopAtEof_Continue(e) == [e EXCEPT !.idx = e.idx + 1]

\* lib.rs:55-57,84: an Eof token breaks out of the loop, to the return
StopAtEof(e) == Finished(e, OkSome(e.first))

\* a missing second operand ending the loop instead of failing
MissingOperand_Lenient(e) == Finished(e, OkSome(e.first))

\* lib.rs:63-66: the iterator has no token left for the second operand
MissingOperand(e) == Finished(e, Err("Unexpected end of stream"))

\* lib.rs:54-84: one iteration of the while loop, or its exit
evaluate_iter(stream, e) ==
    IF e.idx > Len(stream) THEN Finished(e, OkSome(e.first))
    ELSE LET op == stream[e.idx]
         IN  IF op.type = "Eof" THEN StopAtEof(e)
             ELSE IF ~is_ops(op) THEN Finished(e, Err("Item must be operand!"))
             ELSE IF e.idx + 1 > Len(stream) THEN MissingOperand(e)
             ELSE LET second == parse_number(stream[e.idx + 1])
                  IN  IF second.kind = "Err" THEN Finished(e, second)
                      ELSE LET r == ApplyOp(op.type, e.first, second.value)
                           IN  IF r.kind = "Some"
                               THEN [e EXCEPT !.first = r.value, !.idx = e.idx + 2]
                               ELSE Finished(e, r)

RECURSIVE evaluate_from(_, _)
evaluate_from(stream, e) ==
    IF e.done THEN e.result ELSE evaluate_from(stream, evaluate_iter(stream, e))

\* the outcome of Interpreter::evaluate(text): Ok(None), Ok(Some(v)), Err(e),
\* or a panic
evaluate(txt) ==
    LET s == tokenize(txt)
    IN  IF s.panic THEN Panicked("Parse error!")
        ELSE evaluate_from(s.tokens, evaluate_first(s.tokens))

-----------------------------------------------------------------------------
(* The lines a caller passes to Interpreter::evaluate *)

\* the strings of n characters over InputChars
StringsOfLen(n) == [1..n -> InputChars]

\* n0 op1 n1 ... opk nk without spaces and without terminator
RECURSIVE PlainExprs(_)
PlainExprs(k) ==
    IF k = 0 THEN Operands
    ELSE {e \o <<o>> \o n : e \in PlainExprs(k - 1), o \in OpChars, n \in Operands}

\* the same expressions with one space before and after every operand, and
\* the terminator read_line leaves at the end of the line
RECURSIVE SpacedExprs(_)
SpacedExprs(k) ==
    IF k = 0 THEN {<<Space>> \o n \o <<Space>> : n \in Operands}
    ELSE {e \o <<o, Space>> \o n \o <<Space>> :
              e \in SpacedExprs(k - 1), o \in OpChars, n \in Operands}

\* the well-formed lines of k operators
ExprLines(k) == PlainExprs(k) \cup {e \o <<Terminator>> : e \in SpacedExprs(k)}

-----------------------------------------------------------------------------
(* The process: the loop of main.rs around Interpreter::evaluate *)

Init ==
    /\ pc = "prompt"
    /\ text = <<>>
    /\ pos = 0
    /\ val = <<>>
    /\ tokens = <<>>
    /\ first = 0
    /\ idx = 1
    /\ result = OkNone

\* main.rs:9-11 and lib.rs:42,91-92: a line is read into a fresh buffer and
\* handed to evaluate, which starts the scanner on it.  The line is any
\* string of at most MaxLen characters or any well-formed expression of at
\* most MaxOps operators.
ReadLine ==
    /\ pc = "prompt"
    /\ \/ \E n \in 0..MaxLen : \E line \in StringsOfLen(n) : text' = line
       \/ \E k \in 0..MaxOps : \E line \in ExprLines(k) : text' = line
    /\ pc' = "scan"
    /\ pos' = ScanInit.pos
    /\ val' = ScanInit.val
    /\ tokens' = ScanInit.tokens
    /\ UNCHANGED <<first, idx, result>>

ScanState == [pos |-> pos, val |-> val, tokens |-> tokens, panic |-> FALSE]

\* lib.rs:96-117: the scanner consumes one character
ScanChar ==
    /\ pc = "scan"
    /\ pos < Len(text)
    /\ ~scan_step(text, ScanState).panic
    /\ pos' = scan_step(text, ScanState).pos
    /\ val' = scan_step(text, ScanState).val
    /\ tokens' = scan_step(text, ScanState).tokens
    /\ UNCHANGED <<pc, text, first, idx, result>>

\* lib.rs:302: detect_char_type panics; nothing in lib.rs or main.rs catches
\* the unwinding, so the process ends
ScanPanic ==
    /\ pc = "scan"
    /\ pos < Len(text)
    /\ scan_step(text, ScanState).panic
    /\ pc' = "panicked"
    /\ result' = Panicked("Parse error!")
    /\ UNCHANGED <<text, pos, val, tokens, first, idx>>

\* lib.rs:43-53,85-87: tokenize has returned (lib.rs:94,120); the first
\* token is checked and parsed
EvalFirst ==
    /\ pc = "scan"
    /\ pos >= Len(text)
    /\ LET e == evaluate_first(tokens)
       IN  /\ pc' = IF e.done THEN "print" ELSE "loop"
           /\ result' = e.result
           /\ first' = e.first
           /\ idx' = e.idx
    /\ UNCHANGED <<text, pos, val, tokens>>

EvalState == [done |-> FALSE, result |-> result, first |-> first, idx |-> idx]

\* lib.rs:54-84: one iteration of the while loop, or the return after it
EvalIter ==
    /\ pc = "loop"
    /\ LET e == evaluate_iter(tokens, EvalState)
       IN  /\ pc' = IF ~e.done THEN "loop"
                    ELSE IF e.result.kind = "Panic" THEN "panicked"
                    ELSE "print"
           /\ result' = e.result
           /\ first' = e.first
           /\ idx' = e.idx
    /\ UNCHANGED <<text, pos, val, tokens>>

\* main.rs:11-16: the outcome is printed (a value to stdout, an error to
\* stderr, nothing for Ok(None)) and the loop starts over
PrintResult ==
    /\ pc = "print"
    /\ pc' = "prompt"
    /\ text' = <<>>
    /\ pos' = 0
    /\ val' = <<>>
    /\ tokens' = <<>>
    /\ first' = 0
    /\ idx' = 1
    /\ result' = OkNone

Next ==
    \/ ReadLine
    \/ ScanChar
    \/ ScanPanic
    \/ EvalFirst
    \/ EvalIter
    \/ PrintResult

Spec == Init /\ [][Next]_vars

-----------------------------------------------------------------------------
(* What the properties say about a line, stated on its characters alone *)

OverAlphabet(t) == \A i \in 1..Len(t) : t[i] \in AcceptedChars

NotSpace(c) == c # Space

Strip(t) == SelectSeq(t, NotSpace)

HasTerminator(t) == \E i \in 1..Len(t) : t[i] = Terminator

FirstTerminator(t) == CHOOSE i \in 1..Len(t) :
                          t[i] = Terminator /\ \A j \in 1..(i - 1) : t[j] # Terminator

\* the text before the first terminator
BeforeTerminator(t) ==
    IF HasTerminator(t) THEN SubSeq(t, 1, FirstTerminator(t) - 1) ELSE t

\* the text up to and including the first terminator
ThroughTerminator(t) == SubSeq(t, 1, FirstTerminator(t))

\* t without the terminator that ends it, if one does
Chomp(t) ==
    IF t # <<>> /\ t[Len(t)] = Terminator THEN SubSeq(t, 1, Len(t) - 1) ELSE t

\* n0 op1 n1 ... opk nk: digit runs separated by single operators
IsPlainExpr(b) ==
    /\ b # <<>>
    /\ \A i \in 1..Len(b) : b[i] \in Digits \cup OpChars
    /\ b[1] \in Digits
    /\ b[Len(b)] \in Digits
    /\ \A i \in 1..(Len(b) - 1) : ~(b[i] \in OpChars /\ b[i + 1] \in OpChars)

RefDigit(c) ==
    CASE c = "0" -> 0 [] c = "1" -> 1 [] c = "2" -> 2 [] c = "3" -> 3
      [] c = "4" -> 4 [] c = "5" -> 5 [] c = "6" -> 6 [] c = "7" -> 7
      [] c = "8" -> 8 [] c = "9" -> 9

RECURSIVE RefPow10(_)
RefPow10(k) == IF k = 0 THEN 1 ELSE 10 * RefPow10(k - 1)

RECURSIVE RefNum(_)
\* the base-10 value of a digit run, most significant digit first
RefNum(v) ==
    IF v = <<>> THEN 0
    ELSE RefDigit(v[1]) * RefPow10(Len(v) - 1) + RefNum(Tail(v))

Abs(a) == IF a >= 0 THEN a ELSE 0 - a

\* q is the quotient of a by d > 0 rounded toward zero
IsTruncQuotient(a, d, q) ==
    LET r == a - q * d
    IN  /\ a >= 0 => (0 <= r /\ r < d)
        /\ a < 0  => (0 - d < r /\ r <= 0)

RefDivide(a, d) == CHOOSE q \in (0 - Abs(a))..Abs(a) : IsTruncQuotient(a, d, q)

HasOp(b) == \E i \in 1..Len(b) : b[i] \in OpChars

LastOpPos(b) == CHOOSE i \in 1..Len(b) :
                    b[i] \in OpChars /\ \A j \in (i + 1)..Len(b) : b[j] \notin OpChars

RECURSIVE RefNoZeroDivisor(_)
RefNoZeroDivisor(b) ==
    IF ~HasOp(b) THEN TRUE
    ELSE LET p == LastOpPos(b)
         IN  /\ b[p] = "/" => RefNum(SubSeq(b, p + 1, Len(b))) # 0
             /\ RefNoZeroDivisor(SubSeq(b, 1, p - 1))

RECURSIVE RefFold(_)
\* (((n0 op1 n1) op2 n2) ... opk nk)
RefFold(b) ==
    IF ~HasOp(b) THEN RefNum(b)
    ELSE LET p == LastOpPos(b)
             l == RefFold(SubSeq(b, 1, p - 1))
             r == RefNum(SubSeq(b, p + 1, Len(b)))
         IN  CASE b[p] = "+" -> l + r
               [] b[p] = "-" -> l - r
               [] b[p] = "*" -> l * r
               [] b[p] = "/" -> RefDivide(l, r)

\* evaluate has returned to main, or has unwound
Ended == pc \in {"print", "panicked"}

Returned == pc = "print"

-----------------------------------------------------------------------------
\* C1: for every line n0 op1 n1 ... opk nk of digit runs and operators,
\* optionally ended by the terminator, with no zero divisor, evaluate returns
\* Ok(Some(v)) with v the strict left-to-right fold of the operands.
C1_LeftToRightFold ==
    (Ended /\ IsPlainExpr(Chomp(text)) /\ RefNoZeroDivisor(Chomp(text)))
        => (Returned /\ result = OkSome(RefFold(Chomp(text))))

\* "1+2*4" has been evaluated to 12, not to 9
C1_Witness ==
    /\ Returned
    /\ text = <<"1", "+", "2", "*", "4">>
    /\ result = OkSome(12)

-----------------------------------------------------------------------------
\* only spaces, with or without a terminator after them
IsBlank(t) == \A i \in 1..Len(t) : t[i] = Space \/ (i = Len(t) /\ t[i] = Terminator)

\* C2: evaluate returns Ok(None), never an error and never a value, for the
\* empty line, for the terminator alone and for spaces with or without a
\* terminator after them: whenever the token stream is empty or its first
\* token is Eof.
C2_BlankIsNone ==
    /\ (Ended /\ IsBlank(text)) => (Returned /\ result = OkNone)
    /\ (Returned /\ (tokens = <<>> \/ tokens[1].type = "Eof")) => result = OkNone

\* " \n" has been evaluated: the stream is the Eof token alone
C2_Witness ==
    /\ Returned
    /\ text = <<Space, Terminator>>
    /\ Len(tokens) = 1
    /\ tokens[1].type = "Eof"
    /\ result = OkNone

-----------------------------------------------------------------------------
\* the evaluator is about to take a / whose right operand is a run of zeros
AtZeroDivision ==
    /\ pc = "loop"
    /\ idx + 1 <= Len(tokens)
    /\ tokens[idx].type = "Div"
    /\ tokens[idx + 1].type = "Integer"
    /\ \A i \in 1..Len(tokens[idx + 1].value) : tokens[idx + 1].value[i] = "0"

\* C3: whenever evaluation reaches a / whose right operand parses to zero,
\* whatever the accumulator and the position in the chain, the step returns an
\* error to the caller: no value is computed, the accumulator is not touched
\* and the division instruction (which panics on a zero divisor) is not run.
C3_DivisionByZero ==
    [][AtZeroDivision =>
          (pc' = "print" /\ result' = Err("Division by zero!") /\ first' = first)]_vars

\* "1/00" has been evaluated to the division error
C3_Witness ==
    /\ Returned
    /\ text = <<"1", "/", "0", "0">>
    /\ result = Err("Division by zero!")

-----------------------------------------------------------------------------
\* the text before the first terminator, without its spaces
Core(t) == Strip(BeforeTerminator(t))

StartsWithOperator(t) == Core(t) # <<>> /\ Core(t)[1] \in OpChars

EndsWithOperator(t) == Core(t) # <<>> /\ Core(t)[Len(Core(t))] \in OpChars

\* two characters of the class cs before the first terminator with one or
\* more spaces, and nothing else, between them
SeparatedBySpaces(t, cs) ==
    LET b == BeforeTerminator(t)
    IN  \E i \in 1..Len(b) : \E j \in (i + 2)..Len(b) :
            /\ b[i] \in cs
            /\ b[j] \in cs
            /\ \A k \in (i + 1)..(j - 1) : b[k] = Space

AdjacentOperands(t) == SeparatedBySpaces(t, Digits)

\* C4: for every line over the accepted alphabet, evaluate returns an error
\* (never a value, never Ok(None)) when, ignoring spaces and looking at the
\* text before the first terminator, the line starts with an operator, ends
\* with an operator, or holds two operands separated only by spaces.
C4_GrammarErrors ==
    (/\ Ended
     /\ OverAlphabet(text)
     /\ StartsWithOperator(text) \/ EndsWithOperator(text) \/ AdjacentOperands(text))
        => (Returned /\ result.kind = "Err")

\* "1+\n" has been evaluated: the operator is followed by the terminator
C4_Witness ==
    /\ Returned
    /\ text = <<"1", "+", Terminator>>
    /\ result = Err("Evaluated text must be integer!")

-----------------------------------------------------------------------------
\* two operator characters before the first terminator with nothing or only
\* spaces between them
AdjacentOperators(t) ==
    LET b == BeforeTerminator(t)
    IN  \/ \E i \in 1..(Len(b) - 1) : b[i] \in OpChars /\ b[i + 1] \in OpChars
        \/ SeparatedBySpaces(t, OpChars)

OperatorChars(t) == Cardinality({i \in 1..Len(t) : t[i] \in OpChars})

OperatorTokens(stream) == Cardinality({i \in 1..Len(stream) : is_ops(stream[i])})

\* C5: two adjacent operators are a grammar violation: for every line over
\* the accepted alphabet in which an operator is followed, directly or across
\* spaces, by another operator, evaluate returns an error, never a value.
\* (The claim adds that the scanner emits one operator token per operator
\* character, OperatorTokens(tokens) = OperatorChars(text); the code merges
\* a run of one operator character into one token, which is how a value
\* comes to be computed.)
C5_AdjacentOperators ==
    (Ended /\ OverAlphabet(text) /\ AdjacentOperators(text))
        => (Returned /\ result.kind = "Err")

-----------------------------------------------------------------------------
FirstInvalid(t) == CHOOSE i \in 1..Len(t) :
                       t[i] \notin AcceptedChars
                       /\ \A j \in 1..(i - 1) : t[j] \in AcceptedChars

\* C6 as claimed: for every line that holds a character outside the accepted
\* alphabet, evaluate returns an error value to its caller and does not panic,
\* so that the caller goes on to the next line.
C6_ErrorReturned ==
    (Ended /\ ~OverAlphabet(text)) => (Returned /\ result.kind = "Err")

\* C6 as amended: for every line that holds a character outside the accepted
\* alphabet, at any position, evaluate returns nothing to its caller: the
\* scanner panics in detect_char_type before the character is consumed and
\* before any token is evaluated, and the process ends there, no next line
\* being read.
C6_InvalidCharacterPanics ==
    ~OverAlphabet(text) =>
        /\ pc \in {"scan", "panicked"}
        /\ pc = "scan" => pos < FirstInvalid(text)
        /\ pc = "panicked" => (result = Panicked("Parse error!") /\ ~ENABLED Next)

\* "1/0a": the unknown character comes last, after a division by zero
C6_Witness ==
    /\ pc = "panicked"
    /\ text = <<"1", "/", "0", "a">>
    /\ result = Panicked("Parse error!")

-----------------------------------------------------------------------------
RECURSIVE ConcatValues(_)
\* the texts of the tokens in stream order
ConcatValues(stream) ==
    IF stream = <<>> THEN <<>>
    ELSE Head(stream).value \o ConcatValues(Tail(stream))

\* C7: for every line over the accepted alphabet, tokenize emits no
\* Whitespace token and the texts of the tokens, concatenated in stream order,
\* are the line without its spaces.
C7_RoundTrip ==
    (pc \in {"loop", "print"} /\ OverAlphabet(text))
        => /\ \A i \in 1..Len(tokens) : tokens[i].type # "Whitespace"
           /\ ConcatValues(tokens) = Strip(text)

\* "11 1" has been scanned: a run of two characters, spaces, then a run that
\* continues the same class
C7_Witness ==
    /\ Returned
    /\ text = <<"1", "1", Space, "1">>
    /\ Len(tokens) = 2
    /\ tokens[1].value = <<"1", "1">>
    /\ tokens[2].value = <<"1">>

-----------------------------------------------------------------------------
\* a well-formed expression with single spaces before the first operand, after
\* the last one or between an operand and an operator, never inside a digit
\* run, optionally ended by the terminator
IsSpacedExpr(t) ==
    LET b == Chomp(t)
    IN  /\ IsPlainExpr(Strip(b))
        /\ \A i \in 1..(Len(b) - 1) : ~(b[i] = Space /\ b[i + 1] = Space)
        /\ ~SeparatedBySpaces(b, Digits)
        /\ ~SeparatedBySpaces(b, OpChars)

\* C8: single spaces around the operands and operators of a well-formed
\* expression leave the outcome of evaluate unchanged: it is the outcome for
\* the same line without its spaces.
C8_SpaceInsensitive ==
    (Ended /\ IsSpacedExpr(text))
        => (Returned /\ result = evaluate(Strip(text)))

\* " 1 + 2 \n" has been evaluated to 3
C8_Witness ==
    /\ Returned
    /\ text = <<Space, "1", Space, "+", Space, "2", Space, Terminator>>
    /\ result = OkSome(3)

-----------------------------------------------------------------------------
\* the evaluator is about to take a / whose right operand is not zero
AtDivision ==
    /\ pc = "loop"
    /\ idx + 1 <= Len(tokens)
    /\ tokens[idx].type = "Div"
    /\ tokens[idx + 1].type = "Integer"
    /\ RefNum(tokens[idx + 1].value) > 0

\* C9: for every accumulator a, negative ones included, and every operand
\* d > 0 the / step sets the accumulator to the quotient of a by d rounded
\* toward zero; and an accumulator is negative only after a subtraction.
C9_TruncatingDivision ==
    [][/\ AtDivision =>
            (pc' = "loop"
             /\ IsTruncQuotient(first, RefNum(tokens[idx + 1].value), first'))
       /\ first' < 0 => \E i \in 1..Len(tokens') : i < idx' /\ tokens'[i].type = "Minus"
      ]_vars

\* "1-4/2" has been evaluated to -1
C9_Witness ==
    /\ Returned
    /\ text = <<"1", "-", "4", "/", "2">>
    /\ result = OkSome(0 - 1)

-----------------------------------------------------------------------------
\* C10: for every line over the accepted alphabet that holds a terminator,
\* evaluate returns what it returns for the line cut after its first
\* terminator: the tokens after the first Eof token are never applied and
\* never cause an error.
C10_StopsAtTerminator ==
    (Ended /\ OverAlphabet(text) /\ HasTerminator(text))
        => (Returned /\ result = evaluate(ThroughTerminator(text)))

\* "1\n/0" has been evaluated to 1
C10_Witness ==
    /\ Returned
    /\ text = <<"1", Terminator, "/", "0">>
    /\ result = OkSome(1)

====
